---- MODULE Spec2Model ----
(***************************************************************************)
(* Region file engine of anvil-region (src/src/lib.rs): the header of 1024 *)
(* chunk metadata entries, the bitmap of used sectors, and the chunk read  *)
(* and write protocol of AnvilRegion over its backing file.                *)
(***************************************************************************)
EXTENDS Integers, Sequences, FiniteSets, TLC

\* ------------------------------------------------------------ constants
REGION_CHUNKS == 1024
REGION_HEADER_BYTES_LENGTH == 8192
REGION_SECTOR_BYTES_LENGTH == 4096
CHUNK_MAXIMUM_BYTES_LENGTH == 1048576
GZIP_COMPRESSION_TYPE == 1
ZLIB_COMPRESSION_TYPE == 2

\* Widths of the integer types the engine computes in. A u32 is held as the
\* number itself: every u32 of the model is below 2^31, except the difference
\* of two u32 that wraps around, which is held as the negative number.
U8 == 256
U16 == 65536
\* sector_index << 8 keeps the low 24 bits of sector_index.
U24 == 16777216

\* Bits per storage element of the bit vector (usize on a 64-bit target), and
\* the least number of elements a growing Vec allocates.
BITVEC_WORD_BITS == 64
VEC_MIN_NON_ZERO_CAP == 4

\* ------------------------------------------------------------ bounds
\* Number of write_chunk calls explored from the freshly opened region.
MaxWrites == 4
\* Seconds the wall clock may advance during a run.
MaxTicks == 1

\* ------------------------------------------------------------ inputs
\* Wall clock (Unix seconds) at the start of a run.
EPOCH_NOW == 1570215508

\* Local coordinates write_chunk and read_chunk are called with.
Coords == {<<0, 0>>, <<1, 0>>}

\* Chunk values: each compound tag is identified by a number, and
\* write_zlib_compound_tag turns it into a stream of ZlibLen(tag) bytes.
\*   1, 2  less than one sector         5  255 sectors and more than 254
\*   3     more than one sector         6  exactly 256 sectors with its envelope
\*   4     sixteen sectors              7  more than 256 sectors
ZlibLen(tag) ==
    CASE tag = 1 -> 57
      [] tag = 2 -> 61
      [] tag = 3 -> 5003
      [] tag = 4 -> 65531
      [] tag = 5 -> 1044475
      [] tag = 6 -> 1048571
      [] tag = 7 -> 1048572

\* Byte k of the zlib stream of a tag: the two-byte zlib header, then bytes
\* that are never zero, are below 128 and differ from one tag to the next.
ZlibByte(tag, k) ==
    IF k = 0 THEN 120
    ELSE IF k = 1 THEN 156
    ELSE 1 + ((tag * 89 + k * 7) % 127)

\* buffer of write_chunk: the compression type byte, then the zlib stream.
BufferLen(tag) == 1 + ZlibLen(tag)
BufferByte(tag, k) == IF k = 0 THEN ZLIB_COMPRESSION_TYPE ELSE ZlibByte(tag, k - 1)

Max(a, b) == IF a > b THEN a ELSE b
Min(a, b) == IF a < b THEN a ELSE b

\* ------------------------------------------------------------ backing file
\* A file is its length and its bytes. The bytes are kept sparsely:
\*   words  maps a 4-aligned offset to the big-endian u32 written there
\*          (header words and record length words), zero words left out;
\*   blobs  is a set of runs [start, tag, off, n]: the n bytes from start are
\*          bytes off.. of the buffer of tag;
\* every other byte below len is zero.
EmptyFile == [len |-> 0, words |-> <<>>, blobs |-> {}]

\* Byte i (0 the most significant) of a big-endian u32.
WordByte(w, i) == (w \div (256 ^ (3 - i))) % 256

\* The byte at offset p (p < f.len).
ByteAt(f, p) ==
    LET w == p - (p % 4) IN
    IF w \in DOMAIN f.words THEN WordByte(f.words[w], p % 4)
    ELSE LET hit == {s \in f.blobs : s.start <= p /\ p < s.start + s.n} IN
         IF hit = {} THEN 0
         ELSE LET s == CHOOSE s \in hit : TRUE IN BufferByte(s.tag, s.off + (p - s.start))

\* read_u32::<BigEndian> at offset o (o + 4 <= f.len).
ReadU32(f, o) ==
    IF o % 4 = 0 /\ o \in DOMAIN f.words THEN f.words[o]
    ELSE IF o % 4 = 0 /\ \A s \in f.blobs : s.start >= o + 4 \/ s.start + s.n <= o THEN 0
    ELSE ByteAt(f, o) * 16777216 + ByteAt(f, o + 1) * 65536
         + ByteAt(f, o + 2) * 256 + ByteAt(f, o + 3)

\* The runs of f.blobs with the bytes of [a, b) cut out of them.
CutBlobs(blobs, a, b) ==
    LET left  == {[start |-> s.start, tag |-> s.tag, off |-> s.off, n |-> Min(s.start + s.n, a) - s.start]
                    : s \in {t \in blobs : t.start < a}}
        right == {[start |-> Max(s.start, b), tag |-> s.tag,
                   off |-> s.off + (Max(s.start, b) - s.start),
                   n |-> s.start + s.n - Max(s.start, b)]
                    : s \in {t \in blobs : t.start + t.n > b}}
    IN left \cup right

\* The words of f outside [a, b).
CutWords(words, a, b) ==
    [o \in {q \in DOMAIN words : q < a \/ q >= b} |-> words[o]]

\* file.set_len(n): a longer file is extended with zero bytes.
SetLen(f, n) ==
    IF n >= f.len THEN [f EXCEPT !.len = n]
    ELSE [len |-> n, words |-> CutWords(f.words, n, f.len), blobs |-> CutBlobs(f.blobs, n, f.len)]

\* seek to the 4-aligned offset o and write_u32::<BigEndian>(v); writing past
\* the end extends the file.
WriteU32(f, o, v) ==
    LET rest == CutWords(f.words, o, o + 4) IN
    [len   |-> Max(f.len, o + 4),
     words |-> IF v = 0 THEN rest
               ELSE [q \in DOMAIN rest \cup {o} |-> IF q = o THEN v ELSE rest[q]],
     blobs |-> CutBlobs(f.blobs, o, o + 4)]

\* The bytes write_chunk puts at seek_offset: the length word, the buffer, and
\* `padding` zero bytes.
WriteRecord(f, seek_offset, tag, padding) ==
    LET end  == seek_offset + 4 + BufferLen(tag) + padding
        rest == CutWords(f.words, seek_offset, end)
    IN [len   |-> Max(f.len, end),
        words |-> [q \in DOMAIN rest \cup {seek_offset} |->
                     IF q = seek_offset THEN BufferLen(tag) ELSE rest[q]],
        blobs |-> CutBlobs(f.blobs, seek_offset, end)
                    \cup {[start |-> seek_offset + 4, tag |-> tag, off |-> 0, n |-> BufferLen(tag)]}]

\* ------------------------------------------------------------ header
AnvilChunkMetadata(sector_index, sectors, last_modified_timestamp) ==
    [sector_index |-> sector_index, sectors |-> sectors,
     last_modified_timestamp |-> last_modified_timestamp]

\* An entry that is never taken for empty.
NeverEmpty(metadata) == FALSE

is_empty(metadata) == metadata.sectors = 0

\* First 8KB of the file: 1024 offsets, then 1024 timestamps.
read_header(f) ==
    [index \in 0 .. REGION_CHUNKS - 1 |->
        LET offset == ReadU32(f, 4 * index)
            last_modified_timestamp == ReadU32(f, 4 * (REGION_CHUNKS + index))
        IN AnvilChunkMetadata(offset \div 256, offset % 256, last_modified_timestamp)]

\* The slots whose entry is not empty.
NonEmptySlots(metadata_array) ==
    {index \in DOMAIN metadata_array : ~is_empty(metadata_array[index])}

\* A function, computed once: joined with the empty function it is the same
\* function, held as the table of its values.
Computed(fn) == fn @@ <<>>

\* used_sectors.set(index, true) for the indices of start_index .. end_index - 1
\* that are below the length of the bit vector (bit i is element i + 1 of
\* the sequence).
MarkRange(bits, start_index, end_index) ==
    [k \in 1 .. Len(bits) |->
        IF start_index <= k - 1 /\ k - 1 < end_index THEN TRUE ELSE bits[k]]

\* The loop over the entries first .. last of the header, in this order: an
\* empty entry is passed over (and so is a stretch of empty entries), the
\* sectors of any other are marked. The entries of the first half are done
\* before those of the second are begun: `marked` is the bit vector as the
\* first half leaves it.
RECURSIVE MarkEntries(_, _, _, _)
MarkEntries(bits, metadata_array, first, last) ==
    IF \A index \in first .. last : is_empty(metadata_array[index])
    THEN bits
    ELSE IF first = last
    THEN LET metadata == metadata_array[first] IN
         Computed(MarkRange(bits, metadata.sector_index,
                            metadata.sector_index + metadata.sectors))
    ELSE LET middle == (first + last) \div 2 IN
         CHOOSE done \in {MarkEntries(marked, metadata_array, middle + 1, last) :
                            marked \in {MarkEntries(bits, metadata_array, first, middle)}} : TRUE

\* A bit vector built without the two sectors of the header.
UsedSectorsWithoutHeader(total_sectors, metadata_array) ==
    MarkEntries([i \in 1 .. total_sectors |-> FALSE], metadata_array, 0, REGION_CHUNKS - 1)

\* used_sectors(total_sectors, chunks_metadata): total_sectors zero bits, the
\* two sectors of the header set, then the sectors of every entry.
used_sectors_of(total_sectors, metadata_array) ==
    LET zeros == [i \in 1 .. total_sectors |-> FALSE]
        header == Computed(MarkRange(MarkRange(zeros, 0, 1), 1, 2))
    IN MarkEntries(header, metadata_array, 0, REGION_CHUNKS - 1)

\* Capacity in bits of a bit vector built with `bits` bits.
InitialCapacity(bits) ==
    ((bits + BITVEC_WORD_BITS - 1) \div BITVEC_WORD_BITS) * BITVEC_WORD_BITS

\* Capacity after a push into a full vector: the Vec of storage elements
\* doubles, to no fewer than VEC_MIN_NON_ZERO_CAP elements.
GrowCapacity(cap) ==
    Max(2 * cap, VEC_MIN_NON_ZERO_CAP * BITVEC_WORD_BITS)

metadata_index(chunk_x, chunk_z) == chunk_x + chunk_z * 32

\* ------------------------------------------------------------ state
VARIABLES
    file,             \* the backing file
    chunks_metadata,  \* AnvilRegion.chunks_metadata
    used_sectors,     \* AnvilRegion.used_sectors; bit i is used_sectors[i + 1]
    capacity,         \* used_sectors.capacity()
    clock,            \* SystemTime::now() in seconds
    overflow_checks,  \* TRUE in a build that panics on integer overflow
    writes,           \* number of write_chunk calls made
    result,           \* the last call and what it returned
    folder,           \* the folder of AnvilChunkProvider and its region files
    other             \* a second AnvilRegion opened on the same file

vars == <<file, chunks_metadata, used_sectors, capacity, clock, overflow_checks, writes, result,
          folder, other>>

\* No folder on disk, and no second region.
NoFolder == [exists |-> FALSE, files |-> <<>>]
NoInstance == [opened |-> FALSE]

\* An open that does not extend the file to the length of the header.
NewWithoutHeader(f0) ==
    LET md == Computed(read_header(f0))
        total_sectors == f0.len \div REGION_SECTOR_BYTES_LENGTH
    IN [file |-> f0, chunks_metadata |-> md,
        used_sectors |-> Computed(used_sectors_of(Max(2, total_sectors), md)),
        capacity |-> InitialCapacity(Max(2, total_sectors))]

\* An open that sets the length of the file to the length of the header.
NewTruncated(f0) ==
    LET f == SetLen(f0, REGION_HEADER_BYTES_LENGTH)
        md == Computed(read_header(f))
        total_sectors == f.len \div REGION_SECTOR_BYTES_LENGTH
    IN [file |-> f, chunks_metadata |-> md,
        used_sectors |-> Computed(used_sectors_of(total_sectors, md)),
        capacity |-> InitialCapacity(total_sectors)]

\* AnvilRegion::new on a file with the content f0.
New(f0) ==
    LET f == IF REGION_HEADER_BYTES_LENGTH > f0.len THEN SetLen(f0, REGION_HEADER_BYTES_LENGTH) ELSE f0
        md == Computed(read_header(f))
        total_sectors == f.len \div REGION_SECTOR_BYTES_LENGTH
    IN [file |-> f, chunks_metadata |-> md,
        used_sectors |-> Computed(used_sectors_of(total_sectors, md)),
        capacity |-> InitialCapacity(total_sectors)]

Init ==
    LET region == New(EmptyFile) IN
    /\ file = region.file
    /\ chunks_metadata = region.chunks_metadata
    /\ used_sectors = region.used_sectors
    /\ capacity = region.capacity
    /\ clock = EPOCH_NOW
    /\ overflow_checks \in BOOLEAN
    /\ writes = 0
    /\ result = [op |-> "new", kind |-> "Ok"]
    /\ folder = NoFolder
    /\ other = NoInstance

\* ------------------------------------------------------------ find_place
\* The gap search loop of find_place over sectors 0 .. total_sectors - 1, in
\* closed form. A sector at or past the capacity counts as used; indexing a
\* bit at or past the length of the vector but below its capacity panics. The
\* counter sectors_free is a u8 that starts at 0, goes back to 0 at a used
\* sector and is compared with sectors_required after every increment, so the
\* loop stops at the first sector that ends a run of sectors_required free
\* sectors (of 256 free sectors when sectors_required is 0: the counter wraps
\* around, which is a panic where overflow is checked).
GapEnds(bits, limit, run) ==
    {e \in run - 1 .. limit - 1 : \A j \in e - run + 1 .. e : ~bits[j + 1]}

\* The number of free sectors at the end of sectors 0 .. limit - 1.
TrailingFree(bits, limit) ==
    CHOOSE t \in 0 .. limit :
        /\ \A j \in limit - t .. limit - 1 : ~bits[j + 1]
        /\ t = limit \/ bits[limit - t]

GapSearch(bits, cap, total_sectors, sectors_required, checks) ==
    LET limit == Min(Len(bits), total_sectors)
        run == IF sectors_required = 0 THEN U8 ELSE sectors_required
        ends == GapEnds(bits, limit, run)
    IN  IF ends # {}
        THEN IF run = U8 /\ checks THEN [kind |-> "panic", sector_index |-> 0, sectors_free |-> 0]
             ELSE [kind |-> "gap", sector_index |-> CHOOSE e \in ends : \A o \in ends : e <= o,
                   sectors_free |-> sectors_required]
        ELSE IF total_sectors > Len(bits)
        THEN IF cap > Len(bits) THEN [kind |-> "panic", sector_index |-> Len(bits), sectors_free |-> 0]
             ELSE [kind |-> "end", sector_index |-> total_sectors, sectors_free |-> 0]
        ELSE [kind |-> "end", sector_index |-> total_sectors,
              sectors_free |-> TrailingFree(bits, total_sectors)]

\* "Release used sectors": the bits of the entry's range that lie below the
\* capacity are cleared; clearing one at or past the length panics.
ReleasePanics(bits, cap, metadata) ==
    \E i \in 0 .. metadata.sectors - 1 :
        /\ metadata.sector_index + i < cap
        /\ metadata.sector_index + i >= Len(bits)

Release(bits, cap, metadata) ==
    [k \in 1 .. Len(bits) |->
        IF metadata.sector_index <= k - 1 /\ k - 1 < metadata.sector_index + metadata.sectors
        THEN FALSE ELSE bits[k]]

\* put_sector_index of a gap that ends at sector_index; negative where the
\* u32 subtraction wraps around.
PutSectorIndex(sector_index, sectors_free) ==
    sector_index - sectors_free

\* "Acquire used sectors": bits put_sector_index .. put_sector_index + count - 1
\* are set.
Acquire(bits, put_sector_index, count) ==
    [k \in 1 .. Len(bits) |->
        IF put_sector_index <= k - 1 /\ k - 1 < put_sector_index + count
        THEN TRUE ELSE bits[k]]

\* used_sectors.push(true), extend_sectors times.
PushUsed(bits, extend_sectors) ==
    [k \in 1 .. Len(bits) + extend_sectors |-> IF k <= Len(bits) THEN bits[k] ELSE TRUE]

\* The capacity after them: a push into a full vector grows it.
RECURSIVE PushCapacity(_, _)
PushCapacity(cap, len) ==
    IF len <= cap THEN cap ELSE PushCapacity(GrowCapacity(cap), len)

\* What find_place leaves behind: how it ended, the metadata it returns, and
\* the bit vector, its capacity and the file as it left them.
Placed(kind, metadata, bits, cap, f) ==
    [kind |-> kind, metadata |-> metadata, used_sectors |-> bits, capacity |-> cap, file |-> f]

\* The same, with the return statement of find_place that was reached: the
\* old sectors ("same"), a gap ("gap") or the extended file ("extend"); a
\* panic is marked with the part of find_place it came from.
PlacedBy(how, placed) == placed @@ [how |-> how]

\* sectors_required of find_place, in u8: -1 where the addition overflows in a
\* build that checks overflow.
SectorsRequired(chunk_length, checks) ==
    LET quotient == (chunk_length \div REGION_SECTOR_BYTES_LENGTH) % U8 IN
    IF quotient + 1 >= U8 /\ checks THEN -1 ELSE (quotient + 1) % U8

\* find_place after "Release used sectors": the gap search and what follows it.
PlaceAfterRelease(bits, cap, f, sectors_required, checks) ==
    LET file_length == f.len
        total_sectors == file_length \div REGION_SECTOR_BYTES_LENGTH
        search == GapSearch(bits, cap, total_sectors, sectors_required, checks)
        none == AnvilChunkMetadata(0, 0, 0)
    IN  IF search.kind = "panic" THEN PlacedBy("gap", Placed("Panic", none, bits, cap, f))
        ELSE IF search.kind = "gap" THEN PlacedBy("gap",
            LET sectors_free == search.sectors_free
                put_sector_index == PutSectorIndex(search.sector_index, sectors_free)
                \* the first i of the acquire loop that fails, if any
                err_at == cap
                panic_at == Max(0, Len(bits) - put_sector_index)
            IN  \* the subtraction overflows: a panic where overflow is checked, and
                \* otherwise an index past every bit, which the first set(..) rejects
                IF put_sector_index < 0 THEN Placed("Panic", none, bits, cap, f)
                ELSE IF err_at < sectors_free /\ err_at <= panic_at
                THEN Placed("Err", none, Acquire(bits, put_sector_index, err_at), cap, f)
                ELSE IF panic_at < sectors_free THEN Placed("Panic", none, bits, cap, f)
                ELSE Placed("Ok", AnvilChunkMetadata(put_sector_index, sectors_free, 0),
                            Acquire(bits, put_sector_index, sectors_free), cap, f))
        ELSE PlacedBy("extend",
            LET sectors_free == search.sectors_free
                extend == sectors_required - sectors_free
                extend_sectors == extend % U8
                product == REGION_SECTOR_BYTES_LENGTH * extend_sectors
                extend_length == product % U16
                index == total_sectors - sectors_free
            IN  IF checks /\ (extend < 0 \/ product >= U16)
                THEN Placed("Panic", none, bits, cap, f)
                ELSE Placed("Ok", AnvilChunkMetadata(index, sectors_required, 0),
                            PushUsed(bits, extend_sectors),
                            PushCapacity(cap, Len(bits) + extend_sectors),
                            SetLen(f, file_length + extend_length)))

\* find_place(chunk_x, chunk_z, chunk_length) on a region with the header md,
\* the bit vector bits of capacity cap and the file f.
find_place(md, bits, cap, f, chunk_x, chunk_z, chunk_length, checks) ==
    LET sectors_required == SectorsRequired(chunk_length, checks)
        metadata == md[metadata_index(chunk_x, chunk_z)]
    IN  IF sectors_required < 0 THEN PlacedBy("start", Placed("Panic", metadata, bits, cap, f))
        ELSE IF metadata.sectors = sectors_required
        THEN PlacedBy("same", Placed("Ok", metadata, bits, cap, f))
        ELSE IF ReleasePanics(bits, cap, metadata)
        THEN PlacedBy("gap", Placed("Panic", metadata, bits, cap, f))
        ELSE PlaceAfterRelease(Release(bits, cap, metadata), cap, f, sectors_required, checks)

\* ------------------------------------------------------------ update_metadata
\* The header entry is replaced in memory; its offset word is written at
\* metadata_index * 4 and its timestamp a sector further on.
UpdateHeader(md, chunk_x, chunk_z, metadata) ==
    [md EXCEPT ![metadata_index(chunk_x, chunk_z)] = metadata]

UpdateFile(f, chunk_x, chunk_z, metadata) ==
    LET start_seek_offset == metadata_index(chunk_x, chunk_z) * 4
        offset == (metadata.sector_index % U24) * 256 + metadata.sectors
        next_seek_offset == (start_seek_offset + 4) + (REGION_SECTOR_BYTES_LENGTH - 4)
    IN WriteU32(WriteU32(f, start_seek_offset, offset),
                next_seek_offset, metadata.last_modified_timestamp)

\* ------------------------------------------------------------ write_chunk
\* length of write_chunk: the buffer and 4 bytes for the data length.
TotalLength(tag) == BufferLen(tag) + 4

\* Padding that is always a whole sector.
PaddingWholeSector(length) == REGION_SECTOR_BYTES_LENGTH

\* "Padding to align sector".
Padding(length) ==
    REGION_SECTOR_BYTES_LENGTH - ((length % U16) % REGION_SECTOR_BYTES_LENGTH)

\* The check made on the length of the buffer, without the 4 bytes of the
\* data length.
ExceedsMaximumBuffer(length) == length - 4 > CHUNK_MAXIMUM_BYTES_LENGTH

\* The check of the length against the maximum chunk length.
ExceedsMaximum(length) == length > CHUNK_MAXIMUM_BYTES_LENGTH

\* write_chunk(chunk_x, chunk_z, tag) at time now: what it returns and the
\* region it leaves.
write_chunk(md, bits, cap, f, chunk_x, chunk_z, tag, now, checks) ==
    LET length == TotalLength(tag)
        unchanged == [chunks_metadata |-> md, used_sectors |-> bits, capacity |-> cap, file |-> f]
    IN  IF ExceedsMaximum(length)
        THEN unchanged @@ [ret |-> [kind |-> "LengthExceedsMaximum", length |-> length]]
        ELSE
            LET place == find_place(md, bits, cap, f, chunk_x, chunk_z, length, checks) IN
            IF place.kind = "Panic" THEN unchanged @@ [ret |-> [kind |-> "Panic", how |-> place.how]]
            ELSE IF place.kind = "Err"
            THEN [unchanged EXCEPT !.used_sectors = place.used_sectors]
                    @@ [ret |-> [kind |-> "WriteError", how |-> place.how]]
            ELSE
                LET seek_offset == place.metadata.sector_index * REGION_SECTOR_BYTES_LENGTH
                    written == WriteRecord(place.file, seek_offset, tag, Padding(length))
                    metadata == [place.metadata EXCEPT !.last_modified_timestamp = now]
                IN [chunks_metadata |-> UpdateHeader(md, chunk_x, chunk_z, metadata),
                    used_sectors |-> place.used_sectors,
                    capacity |-> place.capacity,
                    file |-> UpdateFile(written, chunk_x, chunk_z, metadata),
                    ret |-> [kind |-> "Ok", how |-> place.how]]

\* ------------------------------------------------------------ read_chunk
\* The zlib stream of n bytes at offset a of f is the stream of tag: the
\* bytes of [a, a + n) are those write_zlib_compound_tag produced for it.
IsZlibOf(f, a, n, tag) ==
    LET inside(lo, hi) == Max(0, Min(hi, a + n) - Max(lo, a))
        ws == {w \in DOMAIN f.words : inside(w, w + 4) > 0}
        bs == {s \in f.blobs : inside(s.start, s.start + s.n) > 0}
        wbytes == UNION {{p \in w .. w + 3 : a <= p /\ p < a + n} : w \in ws}
        RECURSIVE Covered(_)
        Covered(S) == IF S = {} THEN 0
                      ELSE LET s == CHOOSE t \in S : TRUE
                           IN inside(s.start, s.start + s.n) + Covered(S \ {s})
    IN  /\ n = ZlibLen(tag)
        /\ \A s \in bs : s.tag = tag /\ s.start - s.off = a - 1
        /\ \A p \in wbytes : ByteAt(f, p) = ZlibByte(tag, p - a)
        /\ Covered(bs) + Cardinality(wbytes) = n

\* Byte k of the gzip stream of a tag: the two magic bytes of gzip, then the
\* bytes of the stream.
GzipByte(tag, k) ==
    IF k = 0 THEN 31
    ELSE IF k = 1 THEN 139
    ELSE ZlibByte(tag, k)

\* The gzip stream of n bytes at offset a of f is the stream of tag. Only a
\* file that was not written by write_chunk holds one: its first bytes lie in
\* a word of the file, the rest in a run of a buffer.
IsGzipOf(f, a, n, tag) ==
    LET inside(lo, hi) == Max(0, Min(hi, a + n) - Max(lo, a))
        ws == {w \in DOMAIN f.words : inside(w, w + 4) > 0}
        bs == {s \in f.blobs : inside(s.start, s.start + s.n) > 0}
        wbytes == UNION {{p \in w .. w + 3 : a <= p /\ p < a + n} : w \in ws}
        RECURSIVE Covered(_)
        Covered(S) == IF S = {} THEN 0
                      ELSE LET s == CHOOSE t \in S : TRUE
                           IN inside(s.start, s.start + s.n) + Covered(S \ {s})
    IN  /\ n = ZlibLen(tag)
        /\ {a, a + 1} \subseteq wbytes
        /\ \A s \in bs : s.tag = tag /\ s.start - s.off = a - 1
        /\ \A p \in wbytes : ByteAt(f, p) = GzipByte(tag, p - a)
        /\ Covered(bs) + Cardinality(wbytes) = n

\* read_zlib_compound_tag and read_gzip_compound_tag on the n bytes at a.
read_zlib_compound_tag(f, a, n) ==
    LET tags == {tag \in 1 .. 7 : IsZlibOf(f, a, n, tag)} IN
    IF tags = {} THEN [kind |-> "TagDecodeError"]
    ELSE [kind |-> "Ok", tag |-> CHOOSE tag \in tags : TRUE]

read_gzip_compound_tag(f, a, n) ==
    LET tags == {tag \in 1 .. 7 : IsGzipOf(f, a, n, tag)} IN
    IF tags = {} THEN [kind |-> "TagDecodeError"]
    ELSE [kind |-> "Ok", tag |-> CHOOSE tag \in tags : TRUE]

\* A decoder that takes every stream for a zlib stream.
DecodeAsZlib(f, a, n, compression_scheme) ==
    read_zlib_compound_tag(f, a, n)

\* The two decoding arms of the match on compression_scheme.
Decode(f, a, n, compression_scheme) ==
    IF compression_scheme = GZIP_COMPRESSION_TYPE
    THEN read_gzip_compound_tag(f, a, n)
    ELSE read_zlib_compound_tag(f, a, n)

\* A maximum_length that leaves out the sectors of the entry.
MaximumLengthOfFormat(metadata) == CHUNK_MAXIMUM_BYTES_LENGTH

\* maximum_length of read_chunk.
MaximumLength(metadata) ==
    Min(metadata.sectors * REGION_SECTOR_BYTES_LENGTH, CHUNK_MAXIMUM_BYTES_LENGTH)

\* The first sector index whose byte offset is past every file of the model
\* (files are shorter than 2^31 bytes); a read there is at the end of file.
SeekLimit == 524288

\* What read_chunk(chunk_x, chunk_z) can return.
read_chunk(md, f, chunk_x, chunk_z, checks) ==
    LET metadata == md[metadata_index(chunk_x, chunk_z)]
        seek_offset == metadata.sector_index * REGION_SECTOR_BYTES_LENGTH
        maximum_length == MaximumLength(metadata)
        length == ReadU32(f, seek_offset)
        compression_scheme == ByteAt(f, seek_offset + 4)
    IN  IF is_empty(metadata)
        THEN {[kind |-> "ChunkNotFound", chunk_x |-> chunk_x, chunk_z |-> chunk_z]}
        ELSE IF metadata.sector_index >= SeekLimit THEN {[kind |-> "ReadError"]}
        ELSE IF seek_offset + 4 > f.len THEN {[kind |-> "ReadError"]}
        ELSE IF length > maximum_length
        THEN {[kind |-> "LengthExceedsMaximum", length |-> length, maximum_length |-> maximum_length]}
        ELSE IF seek_offset + 5 > f.len THEN {[kind |-> "ReadError"]}
        ELSE IF length = 0
        THEN (IF checks THEN {[kind |-> "Panic"]} ELSE {[kind |-> "ReadError"], [kind |-> "Abort"]})
        ELSE IF seek_offset + 5 + (length - 1) > f.len THEN {[kind |-> "ReadError"]}
        ELSE IF compression_scheme \in {GZIP_COMPRESSION_TYPE, ZLIB_COMPRESSION_TYPE}
        THEN {Decode(f, seek_offset + 5, length - 1, compression_scheme)}
        ELSE {[kind |-> "UnsupportedCompressionScheme", compression_scheme |-> compression_scheme]}

\* ------------------------------------------------------------ actions
\* The process is gone after a panic or an abort.
Alive == result.kind \notin {"Panic", "Abort"}

WriteChunk(chunk_x, chunk_z, tag) ==
    /\ Alive
    /\ writes < MaxWrites
    /\ LET after == write_chunk(chunks_metadata, used_sectors, capacity, file,
                                chunk_x, chunk_z, tag, clock, overflow_checks)
       IN /\ file' = after.file
          /\ chunks_metadata' = after.chunks_metadata
          /\ used_sectors' = after.used_sectors
          /\ capacity' = after.capacity
          /\ result' = [op |-> "write_chunk", chunk_x |-> chunk_x, chunk_z |-> chunk_z, tag |-> tag]
                         @@ after.ret
    /\ writes' = writes + 1
    /\ UNCHANGED <<clock, overflow_checks, folder, other>>

ReadChunk(chunk_x, chunk_z) ==
    /\ Alive
    /\ \E ret \in read_chunk(chunks_metadata, file, chunk_x, chunk_z, overflow_checks) :
          result' = [op |-> "read_chunk", chunk_x |-> chunk_x, chunk_z |-> chunk_z] @@ ret
    /\ UNCHANGED <<file, chunks_metadata, used_sectors, capacity, clock, overflow_checks, writes,
                   folder, other>>

\* A second of wall clock time passes.
Tick ==
    /\ Alive
    /\ writes < MaxWrites
    /\ clock < EPOCH_NOW + MaxTicks
    /\ clock' = clock + 1
    /\ UNCHANGED <<file, chunks_metadata, used_sectors, capacity, overflow_checks, writes, result,
                   folder, other>>

\* Chunk values of ordinary size, and one above the maximum.
Tags == {1, 2, 3, 7}
\* Chunk values whose size reaches the limits of the u8 and u16 arithmetic.
LargeTags == {1, 4, 5, 6}

Next ==
    \/ \E c \in Coords, tag \in Tags : WriteChunk(c[1], c[2], tag)
    \/ \E c \in Coords : ReadChunk(c[1], c[2])
    \/ Tick

Spec == Init /\ [][Next]_vars

NextLarge ==
    \/ \E c \in Coords, tag \in LargeTags : WriteChunk(c[1], c[2], tag)
    \/ \E c \in Coords : ReadChunk(c[1], c[2])
    \/ Tick

SpecLarge == Init /\ [][NextLarge]_vars

\* ------------------------------------------------------------ properties
\* The last call was a write_chunk that returned Ok.
Wrote == result.op = "write_chunk" /\ result.kind = "Ok"

\* What read_chunk returns for a slot of the region as it is now.
ReadNow(chunk_x, chunk_z) ==
    read_chunk(chunks_metadata, file, chunk_x, chunk_z, overflow_checks)

\* C1: round trip. After a successful write_chunk(x, z, T), read_chunk(x, z)
\* on the same region returns a value equal to T.
C1_RoundTrip ==
    Wrote => ReadNow(result.chunk_x, result.chunk_z) = {[kind |-> "Ok", tag |-> result.tag]}

\* The sectors of a header entry.
SectorRange(metadata) ==
    metadata.sector_index .. metadata.sector_index + metadata.sectors - 1

\* C2: non-overlap. The sector ranges of two distinct non-empty slots are
\* disjoint, and no non-empty slot's range contains sector 0 or sector 1.
C2_NoOverlap ==
    LET ne == NonEmptySlots(chunks_metadata) IN
    /\ \A s \in ne : SectorRange(chunks_metadata[s]) \cap {0, 1} = {}
    /\ \A s, t \in ne :
          s # t => SectorRange(chunks_metadata[s]) \cap SectorRange(chunks_metadata[t]) = {}

\* A step that is a call of write_chunk; its arguments are in result'.
WriteStep == writes' = writes + 1
StepSlot == metadata_index(result'.chunk_x, result'.chunk_z)
StepLength == TotalLength(result'.tag)
\* sectors_required of the step, as a number: (total_length / 4096) + 1.
StepSectors == (StepLength \div REGION_SECTOR_BYTES_LENGTH) + 1
\* The step's length is accepted and its slot has to be placed anew.
NewPlacement ==
    /\ WriteStep
    /\ StepLength <= CHUNK_MAXIMUM_BYTES_LENGTH
    /\ chunks_metadata[StepSlot].sectors # StepSectors
\* The bitmap once the slot's old range is released.
Released == Release(used_sectors, capacity, chunks_metadata[StepSlot])
\* The first sectors of the runs of StepSectors free sectors in it.
FreeRuns ==
    {b \in 0 .. Len(Released) - StepSectors : \A j \in b .. b + StepSectors - 1 : ~Released[j + 1]}
\* The number of free sectors at its end.
FreeTail == TrailingFree(Released, Len(Released))

\* C3: gap reuse, first fit. When a write_chunk needs a new placement and the
\* bitmap, after the release of the slot's old range, has a run of
\* sectors_required free sectors, the chunk's sector_index is the first
\* sector of the lowest such run, exactly the sectors of that run change from
\* free to occupied, and the file length and the bitmap length are unchanged.
C3_FirstFit ==
    [][(NewPlacement /\ FreeRuns # {}) =>
         LET first == CHOOSE b \in FreeRuns : \A o \in FreeRuns : b <= o IN
         /\ result'.kind = "Ok"
         /\ chunks_metadata'[StepSlot].sector_index = first
         /\ chunks_metadata'[StepSlot].sectors = StepSectors
         /\ used_sectors' = Acquire(Released, first, StepSectors)
         /\ file'.len = file.len]_vars

\* C4: growth. When a write_chunk needs a new placement and the bitmap has no
\* run of sectors_required free sectors, the file grows by exactly
\* (sectors_required - t) sectors, t being the length of the free run at the
\* end of the file; the chunk's sector_index is old_total_sectors - t; and
\* exactly the appended sectors are added to the bitmap, all occupied.
C4_Growth ==
    [][(NewPlacement /\ FreeRuns = {}) =>
         LET total == file.len \div REGION_SECTOR_BYTES_LENGTH IN
         /\ result'.kind = "Ok"
         /\ file'.len = file.len + (StepSectors - FreeTail) * REGION_SECTOR_BYTES_LENGTH
         /\ chunks_metadata'[StepSlot].sector_index = total - FreeTail
         /\ used_sectors' = PushUsed(Released, StepSectors - FreeTail)]_vars

\* The bytes of f outside the sectors of metadata and outside the two header
\* words (offset and timestamp) of a slot.
Elsewhere(f, metadata, slot) ==
    LET a == metadata.sector_index * REGION_SECTOR_BYTES_LENGTH
        b == a + metadata.sectors * REGION_SECTOR_BYTES_LENGTH
        o == 4 * slot
        t == 4 * (REGION_CHUNKS + slot)
    IN [len |-> f.len,
        words |-> CutWords(CutWords(CutWords(f.words, a, b), o, o + 4), t, t + 4),
        blobs |-> CutBlobs(CutBlobs(CutBlobs(f.blobs, a, b), o, o + 4), t, t + 4)]

\* C5: in-place overwrite. A write_chunk to a non-empty slot whose new
\* sectors_required equals the slot's sector_count returns Ok and leaves the
\* slot's sector_index and sector_count, the file length and every bit of the
\* bitmap unchanged; in the header array only the slot's last_modified
\* changes; in the file only the bytes of the slot's sectors and the slot's
\* own header entry are written, and that entry then holds the unchanged
\* sector_index and sector_count and the new last_modified.
C5_InPlace ==
    [][(WriteStep /\ chunks_metadata[StepSlot].sectors = StepSectors) =>
         LET old == chunks_metadata[StepSlot] IN
         /\ result'.kind = "Ok"
         /\ chunks_metadata' = [chunks_metadata EXCEPT ![StepSlot].last_modified_timestamp = clock]
         /\ used_sectors' = used_sectors
         /\ file'.len = file.len
         /\ Elsewhere(file', old, StepSlot) = Elsewhere(file, old, StepSlot)
         /\ ReadU32(file', 4 * StepSlot) = old.sector_index * 256 + old.sectors
         /\ ReadU32(file', 4 * (REGION_CHUNKS + StepSlot)) = clock]_vars

\* C5 happens: a write_chunk has just kept a slot in its old sectors, with a
\* new value.
C5_Witness ==
    /\ Wrote /\ result.how = "same"
    /\ clock > EPOCH_NOW
    /\ chunks_metadata[metadata_index(result.chunk_x, result.chunk_z)].last_modified_timestamp = clock
    /\ result.tag = 2

\* C6: the header on disk agrees with the header in memory. Parsing the first
\* 8192 bytes of the file yields the in-memory header array.
C6_HeaderAgrees ==
    read_header(file) = chunks_metadata

\* C7: reserved header sectors. Bits 0 and 1 of the bitmap are set.
C7_HeaderSectorsUsed ==
    used_sectors[1] /\ used_sectors[2]

\* C8: bitmap length. After the region is opened and after every write_chunk
\* that returned, the bitmap's length is floor(file_length / 4096).
C8_BitmapLength ==
    Alive => Len(used_sectors) = file.len \div REGION_SECTOR_BYTES_LENGTH

\* C9: an oversized write is aborted. If total_length exceeds 256 * 4096,
\* write_chunk returns LengthExceedsMaximum{length = total_length} and the
\* file, the header array and the bitmap are as they were.
C9_OversizedAborts ==
    [][(WriteStep /\ StepLength > 256 * REGION_SECTOR_BYTES_LENGTH) =>
         /\ result'.kind = "LengthExceedsMaximum"
         /\ result'.length = StepLength
         /\ file' = file
         /\ chunks_metadata' = chunks_metadata
         /\ used_sectors' = used_sectors]_vars

\* C9 happens: an oversized write_chunk was refused on a region that holds
\* a chunk.
C9_Witness ==
    /\ result.op = "write_chunk" /\ result.kind = "LengthExceedsMaximum"
    /\ NonEmptySlots(chunks_metadata) # {}

\* ------------------------------------------------------------ damaged files
\* A region file that holds one record, of tag 1, for one slot, with the
\* record's length word replaced by `length`: total_sectors sectors long,
\* the slot's header entry pointing at sector_index with `sectors` sectors.
OneRecordFile(slot, sector_index, sectors, length, total_sectors) ==
    LET sized == SetLen(EmptyFile, total_sectors * REGION_SECTOR_BYTES_LENGTH)
        entry == WriteU32(WriteU32(sized, 4 * slot, sector_index * 256 + sectors),
                          4 * (REGION_CHUNKS + slot), EPOCH_NOW)
        at == sector_index * REGION_SECTOR_BYTES_LENGTH
    IN  IF at + REGION_SECTOR_BYTES_LENGTH > sized.len THEN entry
        ELSE WriteU32(WriteRecord(entry, at, 1, Padding(TotalLength(1))), at, length)

\* Length words of a record: none, the length of the record that is there,
\* and lengths around one sector, two sectors, 255 sectors and the maximum.
LengthWords ==
    {0, 1, BufferLen(1), 4095, 4096, 4097, 8192, 8193, 1044480, 1044481,
     1048576, 1048577, 1570215508, 2147483647}

InitDamaged ==
    \E c \in Coords, sector_index \in {2, 4}, sectors \in {0, 1, 2, 255},
       length \in LengthWords, total_sectors \in {4, 260} :
        LET region == New(OneRecordFile(metadata_index(c[1], c[2]), sector_index, sectors,
                                        length, total_sectors))
        IN /\ file = region.file
           /\ chunks_metadata = region.chunks_metadata
           /\ used_sectors = region.used_sectors
           /\ capacity = region.capacity
           /\ clock = EPOCH_NOW
           /\ overflow_checks \in BOOLEAN
           /\ writes = 0
           /\ result = [op |-> "new", kind |-> "Ok"]
           /\ folder = NoFolder
           /\ other = NoInstance

NextDamaged == \E c \in Coords : ReadChunk(c[1], c[2])

\* A region opened on a damaged file, and read.
SpecDamaged == InitDamaged /\ [][NextDamaged]_vars

\* C10: a corrupt length is a typed error. For every non-empty slot whose
\* record's length word L is greater than sector_count * 4096, read_chunk
\* returns LengthExceedsMaximum{length = L, maximum_length =
\* min(sector_count * 4096, 256 * 4096)}, and nothing else.
C10_CorruptLength ==
    \A c \in Coords :
        LET metadata == chunks_metadata[metadata_index(c[1], c[2])]
            at == metadata.sector_index * REGION_SECTOR_BYTES_LENGTH
        IN (/\ metadata.sectors # 0
            /\ at + 4 <= file.len
            /\ ReadU32(file, at) > metadata.sectors * REGION_SECTOR_BYTES_LENGTH)
           => ReadNow(c[1], c[2]) =
                {[kind |-> "LengthExceedsMaximum", length |-> ReadU32(file, at),
                  maximum_length |-> Min(metadata.sectors * REGION_SECTOR_BYTES_LENGTH,
                                         256 * REGION_SECTOR_BYTES_LENGTH)]}

\* C10 happens: read_chunk has refused a record whose length word is more
\* than its sectors hold and no more than 256 sectors.
C10_Witness ==
    /\ result.op = "read_chunk" /\ result.kind = "LengthExceedsMaximum"
    /\ result.length > result.maximum_length
    /\ result.length <= CHUNK_MAXIMUM_BYTES_LENGTH
    /\ result.maximum_length = 2 * REGION_SECTOR_BYTES_LENGTH

\* ------------------------------------------------------------ foreign files
\* A region file of three sectors written by another program: one record of
\* tag 1 in sector 2 for one slot, with the given compression scheme byte and
\* a gzip or a zlib stream.
ForeignRecordFile(slot, compression_scheme, gzip) ==
    LET intact == OneRecordFile(slot, 2, 1, BufferLen(1), 3)
        at == 2 * REGION_SECTOR_BYTES_LENGTH
        stream(k) == IF gzip THEN GzipByte(1, k) ELSE ZlibByte(1, k)
    IN WriteU32(intact, at + 4,
                compression_scheme * 16777216 + stream(0) * 65536 + stream(1) * 256 + stream(2))

\* Compression scheme bytes of a record (a byte of 128 and more makes a word
\* past the numbers of the model).
Schemes == {0, 1, 2, 3, 127}

InitForeign ==
    \E c \in Coords, compression_scheme \in Schemes, gzip \in BOOLEAN :
        LET region == New(ForeignRecordFile(metadata_index(c[1], c[2]), compression_scheme, gzip))
        IN /\ file = region.file
           /\ chunks_metadata = region.chunks_metadata
           /\ used_sectors = region.used_sectors
           /\ capacity = region.capacity
           /\ clock = EPOCH_NOW
           /\ overflow_checks \in BOOLEAN
           /\ writes = 0
           /\ result = [op |-> "new", kind |-> "Ok"]
           /\ folder = NoFolder
           /\ other = NoInstance

NextForeign ==
    \/ \E c \in Coords : WriteChunk(c[1], c[2], 1)
    \/ \E c \in Coords : ReadChunk(c[1], c[2])

\* A region opened on a file of another program, read and written.
SpecForeign == InitForeign /\ [][NextForeign]_vars

\* The record of a slot can be read: the slot is not empty, its length word
\* is there, is at least 1 and passes the maximum check, and the file holds
\* the bytes it announces.
Readable(metadata) ==
    LET at == metadata.sector_index * REGION_SECTOR_BYTES_LENGTH IN
    /\ ~is_empty(metadata)
    /\ at + 4 <= file.len
    /\ ReadU32(file, at) >= 1
    /\ ReadU32(file, at) <= MaximumLength(metadata)
    /\ at + 4 + ReadU32(file, at) <= file.len

\* C11: compression dispatch. For a non-empty slot whose length word passes
\* the maximum check and whose payload is readable, read_chunk returns what
\* the gzip decoder makes of the payload when the scheme byte is 1, what the
\* zlib decoder makes of it when it is 2, and UnsupportedCompressionScheme
\* carrying the byte for every other value; and the record a write_chunk
\* writes has the scheme byte 2, which is on disk after the call when the
\* record lies past the header.
C11_Dispatch ==
    /\ [](\A c \in Coords :
            LET metadata == chunks_metadata[metadata_index(c[1], c[2])]
                at == metadata.sector_index * REGION_SECTOR_BYTES_LENGTH
                n == ReadU32(file, at) - 1
                compression_scheme == ByteAt(file, at + 4)
            IN Readable(metadata) =>
                 ReadNow(c[1], c[2]) =
                    IF compression_scheme = 1 THEN {read_gzip_compound_tag(file, at + 5, n)}
                    ELSE IF compression_scheme = 2 THEN {read_zlib_compound_tag(file, at + 5, n)}
                    ELSE {[kind |-> "UnsupportedCompressionScheme",
                           compression_scheme |-> compression_scheme]})
    /\ [][(WriteStep /\ result'.kind = "Ok") =>
            LET place == find_place(chunks_metadata, used_sectors, capacity, file,
                                    result'.chunk_x, result'.chunk_z, StepLength, overflow_checks)
                at == place.metadata.sector_index * REGION_SECTOR_BYTES_LENGTH
            IN /\ ByteAt(WriteRecord(place.file, at, result'.tag, Padding(StepLength)), at + 4) = 2
               /\ place.metadata.sector_index >= 2 => ByteAt(file', at + 4) = 2]_vars

\* C11 happens: read_chunk has decoded a gzip stream of a record whose scheme
\* byte is 1.
C11_Witness ==
    /\ result.op = "read_chunk" /\ result.kind = "Ok" /\ result.tag = 1
    /\ LET metadata == chunks_metadata[metadata_index(result.chunk_x, result.chunk_z)]
       IN ByteAt(file, metadata.sector_index * REGION_SECTOR_BYTES_LENGTH + 4) = GZIP_COMPRESSION_TYPE

\* ------------------------------------------------------------ AnvilChunkProvider
\* An i32 is held as the number itself. Its low 31 bits, as a number:
MinI32 == -2147483647 - 1
MaxI32 == 2147483647
Low31(c) == IF c < 0 THEN c - MinI32 ELSE c

\* A quotient by 32 that rounds towards zero.
RegionTowardsZero(c) ==
    IF c >= 0 THEN c \div 32 ELSE 0 - ((MaxI32 - (c + MaxI32)) \div 32)

\* chunk >> 5 on an i32: the bits move five places down and the sign bit
\* fills the five places at the top.
RegionCoordinate(c) ==
    IF c < 0 THEN (Low31(c) \div 32) - 67108864 ELSE c \div 32

\* The six lowest bits.
RegionChunkSixBits(c) == Low31(c) % 64

\* (chunk & 31) as u8: the five lowest bits.
RegionChunkCoordinate(c) == Low31(c) % 32

\* format!("r.{}.{}.mca", region_x, region_z)
RegionName(region_x, region_z) == <<"r", region_x, region_z, "mca">>

\* The region file is there.
RegionExists(name) == folder.exists /\ name \in DOMAIN folder.files

\* The files of the folder with the file `name` created or replaced.
StoreFile(files, name, f) ==
    [n \in DOMAIN files \cup {name} |-> IF n = name THEN f ELSE files[n]]

\* The slot's record starts below SeekLimit: a write_chunk to it leaves a
\* file that is shorter than 2^31 bytes.
WithinModel(md, chunk_x, chunk_z) ==
    md[metadata_index(chunk_x, chunk_z)].sector_index < SeekLimit

\* load_chunk(chunk_x, chunk_z): the region is opened for the call only.
LoadChunk(chunk_x, chunk_z) ==
    LET region_x == RegionCoordinate(chunk_x)
        region_z == RegionCoordinate(chunk_z)
        region_chunk_x == RegionChunkCoordinate(chunk_x)
        region_chunk_z == RegionChunkCoordinate(chunk_z)
        name == RegionName(region_x, region_z)
        call == [op |-> "load_chunk", x |-> chunk_x, z |-> chunk_z, name |-> name,
                 region_chunk_x |-> region_chunk_x, region_chunk_z |-> region_chunk_z]
    IN /\ Alive
       /\ IF ~RegionExists(name)
          THEN /\ result' = call @@ [kind |-> "RegionNotFound",
                                     region_x |-> region_x, region_z |-> region_z]
               /\ UNCHANGED <<file, chunks_metadata, used_sectors, capacity, folder>>
          ELSE \E region \in {New(folder.files[name])} :
               /\ \E ret \in read_chunk(region.chunks_metadata, region.file,
                                         region_chunk_x, region_chunk_z, overflow_checks) :
                      result' = call @@ ret
               /\ file' = region.file
               /\ chunks_metadata' = region.chunks_metadata
               /\ used_sectors' = region.used_sectors
               /\ capacity' = region.capacity
               /\ folder' = [folder EXCEPT !.files = StoreFile(@, name, region.file)]
       /\ UNCHANGED <<clock, overflow_checks, writes, other>>

\* save_chunk(chunk_x, chunk_z, tag): the folder and the region file are
\* created when they are not there.
SaveChunk(chunk_x, chunk_z, tag) ==
    LET region_x == RegionCoordinate(chunk_x)
        region_z == RegionCoordinate(chunk_z)
        region_chunk_x == RegionChunkCoordinate(chunk_x)
        region_chunk_z == RegionChunkCoordinate(chunk_z)
        name == RegionName(region_x, region_z)
        call == [op |-> "save_chunk", x |-> chunk_x, z |-> chunk_z, name |-> name,
                 region_chunk_x |-> region_chunk_x, region_chunk_z |-> region_chunk_z,
                 tag |-> tag]
    IN /\ Alive
       /\ writes < MaxWrites
       /\ \E region \in {New(IF RegionExists(name) THEN folder.files[name] ELSE EmptyFile)} :
          /\ WithinModel(region.chunks_metadata, region_chunk_x, region_chunk_z)
          /\ \E after \in {write_chunk(region.chunks_metadata, region.used_sectors,
                                     region.capacity, region.file, region_chunk_x,
                                     region_chunk_z, tag, clock, overflow_checks)} :
            /\ file' = after.file
            /\ chunks_metadata' = after.chunks_metadata
            /\ used_sectors' = after.used_sectors
            /\ capacity' = after.capacity
            /\ folder' = [exists |-> TRUE, files |-> StoreFile(folder.files, name, after.file)]
            /\ result' = call @@ after.ret
       /\ writes' = writes + 1
       /\ UNCHANGED <<clock, overflow_checks, other>>

\* Chunk coordinates save_chunk is called with, and those load_chunk is
\* called with as well.
SaveCoords == {<<-1, 0>>, <<32, 33>>}
LoadCoords == SaveCoords \cup {<<63, 33>>, <<-32, 31>>, <<MinI32, MaxI32>>}
SaveTags == {1, 3, 7}

\* A provider on a folder that is not there yet.
InitProvider ==
    /\ file = EmptyFile
    /\ chunks_metadata = <<>>
    /\ used_sectors = <<>>
    /\ capacity = 0
    /\ clock = EPOCH_NOW
    /\ overflow_checks \in BOOLEAN
    /\ writes = 0
    /\ result = [op |-> "provider", kind |-> "Ok"]
    /\ folder = NoFolder
    /\ other = NoInstance

NextProvider ==
    \/ \E c \in SaveCoords, tag \in SaveTags : SaveChunk(c[1], c[2], tag)
    \/ \E c \in LoadCoords : LoadChunk(c[1], c[2])

SpecProvider == InitProvider /\ [][NextProvider]_vars

\* A step that is a call of load_chunk; its arguments are in result'.
LoadStep == result'.op = "load_chunk"
\* The slot the call reads, in the region it has opened.
LoadSlot == metadata_index(result'.region_chunk_x, result'.region_chunk_z)

\* C12: empty slot read. read_chunk(x, z) on a slot whose sector_count is 0
\* returns ChunkNotFound carrying (x, z); a load_chunk that finds the region
\* and an empty slot returns ChunkNotFound carrying (chunk_x & 31, chunk_z & 31),
\* and leaves the file as it was and the header and the bitmap as the open
\* of the region made them.
C12_EmptySlot ==
    /\ [](chunks_metadata # <<>> =>
            \A x \in 0 .. 31, z \in 0 .. 31 :
                chunks_metadata[metadata_index(x, z)].sectors = 0
                   => ReadNow(x, z) = {[kind |-> "ChunkNotFound", chunk_x |-> x, chunk_z |-> z]})
    /\ [][(/\ LoadStep
            /\ folder.exists /\ result'.name \in DOMAIN folder.files
            /\ chunks_metadata'[LoadSlot].sectors = 0) =>
              /\ result'.kind = "ChunkNotFound"
              /\ result'.chunk_x = result'.x % 32
              /\ result'.chunk_z = result'.z % 32
              /\ folder' = folder
              /\ file' = folder.files[result'.name]
              /\ chunks_metadata' = read_header(file')
              /\ used_sectors' = used_sectors_of(file'.len \div REGION_SECTOR_BYTES_LENGTH,
                                                 chunks_metadata')]_vars

\* C12 happens: a load_chunk at a negative coordinate has found its region
\* and an empty slot in it.
C12_Witness ==
    /\ result.op = "load_chunk" /\ result.kind = "ChunkNotFound"
    /\ result.x = -32 /\ result.z = 31
    /\ result.chunk_x = 0 /\ result.chunk_z = 31

\* A step that is a call of save_chunk; its arguments are in result'.
SaveStep == result'.op = "save_chunk" /\ writes' = writes + 1
\* The region file the step's call names is not there before the step.
StepRegionMissing == ~(folder.exists /\ result'.name \in DOMAIN folder.files)
\* floor(c / 32): the r with 32 * r <= c < 32 * r + 32.
IsFloor32(r, c) == c - 32 * r \in 0 .. 31

\* C13: missing region on load. A load_chunk(chunk_x, chunk_z) whose region
\* file does not exist returns RegionNotFound{region_x = floor(chunk_x / 32),
\* region_z = floor(chunk_z / 32)} and leaves the folder and the set of region
\* files as they were; a save_chunk at such a coordinate creates the folder
\* and the region file of these region coordinates, and no other file.
C13_MissingRegion ==
    /\ [][(LoadStep /\ StepRegionMissing) =>
              /\ result'.kind = "RegionNotFound"
              /\ IsFloor32(result'.region_x, result'.x)
              /\ IsFloor32(result'.region_z, result'.z)
              /\ folder' = folder]_vars
    /\ [][(SaveStep /\ StepRegionMissing) =>
              /\ result'.name[1] = "r" /\ result'.name[4] = "mca"
              /\ IsFloor32(result'.name[2], result'.x)
              /\ IsFloor32(result'.name[3], result'.z)
              /\ folder'.exists
              /\ DOMAIN folder'.files = DOMAIN folder.files \cup {result'.name}
              /\ folder'.files[result'.name].len >= REGION_HEADER_BYTES_LENGTH]_vars

\* C13 happens: the folder is there, with a region file in it, and a
\* load_chunk at a negative coordinate has not found its region.
C13_Witness ==
    /\ result.op = "load_chunk" /\ result.kind = "RegionNotFound"
    /\ result.x = -1 /\ result.region_x = -1
    /\ folder.exists /\ DOMAIN folder.files # {}

\* Chunk coordinates around zero and at both ends of the i32.
FoldSamples ==
    (-70 .. 70) \cup {MinI32 + k : k \in 0 .. 33} \cup {MaxI32 - k : k \in 0 .. 33}

\* C14: coordinate folding. For a chunk coordinate c of a call, the region
\* coordinate c >> 5 is floor(c / 32), the local coordinate c & 31 lies in
\* 0 .. 31 and c = 32 * region + local (so -1 gives region -1 and local 31);
\* the slot index local_x + 32 * local_z lies in 0 .. 1023 and no other pair
\* of local coordinates has it. The same holds of the coordinates of
\* FoldSamples.
C14_Folding ==
    result.op \in {"load_chunk", "save_chunk"} =>
        LET region_x == result.name[2]
            region_z == result.name[3]
            local_x == result.region_chunk_x
            local_z == result.region_chunk_z
        IN /\ IsFloor32(region_x, result.x) /\ IsFloor32(region_z, result.z)
           /\ local_x \in 0 .. 31 /\ local_z \in 0 .. 31
           /\ result.x - 32 * region_x = local_x
           /\ result.z - 32 * region_z = local_z
           /\ result.x = -1 => region_x = -1 /\ local_x = 31
           /\ metadata_index(local_x, local_z) \in 0 .. REGION_CHUNKS - 1
           /\ \A a \in 0 .. 31, b \in 0 .. 31 :
                 metadata_index(a, b) = metadata_index(local_x, local_z)
                    => a = local_x /\ b = local_z
           /\ \A c \in FoldSamples :
                 /\ IsFloor32(RegionCoordinate(c), c)
                 /\ RegionChunkCoordinate(c) = c - 32 * RegionCoordinate(c)

\* C14 happens: a save_chunk at chunk coordinate -1 has written slot 31 of
\* region -1.
C14_Witness ==
    /\ result.op = "save_chunk" /\ result.kind = "Ok"
    /\ result.x = -1 /\ result.name[2] = -1 /\ result.region_chunk_x = 31
    /\ chunks_metadata[31].sectors # 0
    /\ <<"r", MinI32 \div 32, MaxI32 \div 32, "mca">> \notin DOMAIN folder.files

\* ------------------------------------------------------------ open
\* Files a region is opened on: no file or an empty one, and a region file
\* of five sectors with one record in sector 2.
StoredFiles ==
    {EmptyFile, OneRecordFile(0, 2, 1, BufferLen(1), 5)}

\* A file, and no region opened on it yet.
InitStored ==
    /\ file \in StoredFiles
    /\ chunks_metadata = <<>>
    /\ used_sectors = <<>>
    /\ capacity = 0
    /\ clock = EPOCH_NOW
    /\ overflow_checks \in BOOLEAN
    /\ writes = 0
    /\ result = [op |-> "none", kind |-> "Ok"]
    /\ folder = NoFolder
    /\ other = NoInstance

\* A region is open.
Opened == chunks_metadata # <<>>

\* AnvilRegion::new on the file; a region that was open is dropped.
OpenRegion ==
    /\ Alive
    /\ \E region \in {New(file)} :
          /\ file' = region.file
          /\ chunks_metadata' = region.chunks_metadata
          /\ used_sectors' = region.used_sectors
          /\ capacity' = region.capacity
    /\ result' = [op |-> "new", kind |-> "Ok"]
    /\ UNCHANGED <<clock, overflow_checks, writes, folder, other>>

\* write_chunk and read_chunk on the region that is open.
RegionWrite(chunk_x, chunk_z, tag) ==
    /\ Opened
    /\ WithinModel(chunks_metadata, chunk_x, chunk_z)
    /\ WriteChunk(chunk_x, chunk_z, tag)

RegionRead(chunk_x, chunk_z) ==
    /\ Opened
    /\ ReadChunk(chunk_x, chunk_z)

NextStored ==
    \/ OpenRegion
    \/ \E c \in Coords, tag \in {1, 3} : RegionWrite(c[1], c[2], tag)
    \/ \E c \in Coords : RegionRead(c[1], c[2])

\* A file that regions are opened on, read and written.
SpecStored == InitStored /\ [][NextStored]_vars

\* A step that is a call of AnvilRegion::new.
OpenStep == result'.op = "new"

\* C15: open canonical form. Opening a region on a nonexistent or empty file
\* leaves a file of exactly 8192 zero bytes, a header of 1024 empty entries
\* and a bitmap of 2 bits, both set; opening it on a file of 8192 bytes or
\* more changes neither the length of the file nor any of its bytes.
C15_OpenCanonical ==
    [][OpenStep =>
         /\ file.len = 0 =>
               /\ file'.len = 8192
               /\ \A p \in 0 .. 8191 : ByteAt(file', p) = 0
               /\ DOMAIN chunks_metadata' = 0 .. 1023
               /\ \A index \in 0 .. 1023 :
                     chunks_metadata'[index] = AnvilChunkMetadata(0, 0, 0)
               /\ used_sectors' = <<TRUE, TRUE>>
         /\ file.len >= 8192 => file' = file]_vars

\* C15 happens: a region has just been opened on an empty file.
C15_Witness ==
    /\ result.op = "new" /\ writes = 0
    /\ file = [len |-> 8192, words |-> <<>>, blobs |-> {}]
    /\ NonEmptySlots(chunks_metadata) = {}

\* C16: the file length is monotone. No open, read_chunk or write_chunk makes
\* the file shorter, also when a rewrite has released the last sectors of the
\* file.
C16_LengthMonotone ==
    [][file'.len >= file.len]_vars

\* C16 happens: a write_chunk has moved a chunk out of the last two sectors
\* of a file of four sectors; they are free, and the file still has them.
C16_Witness ==
    /\ Wrote
    /\ result.how = "gap"
    /\ used_sectors = <<TRUE, TRUE, FALSE, FALSE>>
    /\ file.len = 4 * REGION_SECTOR_BYTES_LENGTH

\* ------------------------------------------------------------ two regions
\* A region file of four sectors with one record, of slot 2, in sector 3;
\* sector 2 is free.
GapFile == OneRecordFile(2, 3, 1, BufferLen(1), 4)

\* Two regions opened on one file, the empty one or GapFile: each has read
\* the header and built its bit vector on its own.
InitTwo ==
    \E f0 \in {EmptyFile, GapFile} :
        LET region == New(f0) IN
        /\ file = region.file
        /\ chunks_metadata = region.chunks_metadata
        /\ used_sectors = region.used_sectors
        /\ capacity = region.capacity
        /\ other = [opened |-> TRUE, chunks_metadata |-> region.chunks_metadata,
                    used_sectors |-> region.used_sectors, capacity |-> region.capacity,
                    writes |-> 0]
        /\ clock = EPOCH_NOW
        /\ overflow_checks \in BOOLEAN
        /\ writes = 0
        /\ result = [op |-> "new", kind |-> "Ok"]
        /\ folder = NoFolder

\* write_chunk on the second region: its own header and bit vector, the
\* same file.
WriteChunkOther(chunk_x, chunk_z, tag) ==
    /\ Alive
    /\ writes < MaxWrites
    /\ \E after \in {write_chunk(other.chunks_metadata, other.used_sectors, other.capacity,
                                  file, chunk_x, chunk_z, tag, clock, overflow_checks)} :
          /\ file' = after.file
          /\ other' = [opened |-> TRUE, chunks_metadata |-> after.chunks_metadata,
                       used_sectors |-> after.used_sectors, capacity |-> after.capacity,
                       writes |-> other.writes + 1]
          /\ result' = [op |-> "write_chunk", by |-> "other", chunk_x |-> chunk_x,
                        chunk_z |-> chunk_z, tag |-> tag] @@ after.ret
    /\ writes' = writes + 1
    /\ UNCHANGED <<chunks_metadata, used_sectors, capacity, clock, overflow_checks, folder>>

NextTwo ==
    \/ \E c \in Coords, tag \in {1, 3} : WriteChunk(c[1], c[2], tag)
    \/ \E c \in Coords, tag \in {1, 3} : WriteChunkOther(c[1], c[2], tag)
    \/ \E c \in Coords : ReadChunk(c[1], c[2])

SpecTwo == InitTwo /\ [][NextTwo]_vars

\* Two non-empty entries of the header on disk have a sector in common.
OverlapOnDisk ==
    \E md \in {Computed(read_header(file))} :
        \E s, t \in NonEmptySlots(md) :
            s # t /\ SectorRange(md[s]) \cap SectorRange(md[t]) # {}

\* Each of the two regions has written one slot, not the same one, and the
\* entries on disk overlap.
TwoWritersOverlap ==
    /\ writes = 2 /\ other.writes = 1
    /\ OverlapOnDisk

\* C17: two regions on one file are unsafe. Some interleaving of write_chunk
\* calls of the two regions, to different slots, leaves two non-empty header
\* entries on disk with overlapping sector ranges (TwoWritersOverlap is
\* reached), whereas calls that all go through one region do not conflict:
\* as long as the second region has written nothing, no two non-empty
\* entries on disk overlap.
C17_OneRegionSafe ==
    other.writes = 0 => ~OverlapOnDisk

\* C18: header frame of a write. A successful write_chunk to slot s changes
\* no entry of the in-memory header but entry s, and in the first 8192 bytes
\* of the file no word but the offset word at 4 * s and the timestamp word
\* at 4096 + 4 * s.
C18_HeaderFrame ==
    [][(WriteStep /\ result'.kind = "Ok") =>
         /\ \A t \in (0 .. REGION_CHUNKS - 1) \ {StepSlot} :
               chunks_metadata'[t] = chunks_metadata[t]
         /\ \A w \in (0 .. 2 * REGION_CHUNKS - 1) \ {StepSlot, REGION_CHUNKS + StepSlot} :
               ReadU32(file', 4 * w) = ReadU32(file, 4 * w)]_vars

\* C19: the sector count fits its 8-bit field. For every total_length that
\* write_chunk accepts, sectors_required computed in u8 is the number
\* floor(total_length / 4096) + 1, lies in 1 .. 255 and is enough sectors for
\* total_length bytes; the slot a write_chunk has written is stored with
\* that sector count.
C19_SectorCountFits ==
    [][(WriteStep /\ StepLength <= 256 * REGION_SECTOR_BYTES_LENGTH) =>
         LET sectors_required == SectorsRequired(StepLength, overflow_checks) IN
         /\ sectors_required = StepSectors
         /\ sectors_required \in 1 .. 255
         /\ sectors_required * REGION_SECTOR_BYTES_LENGTH >= StepLength
         /\ result'.kind = "Ok" => chunks_metadata'[StepSlot].sectors = sectors_required]_vars

\* The step's write_chunk reaches the end of find_place, where the file is
\* extended.
ExtendStep ==
    /\ WriteStep
    /\ StepLength <= CHUNK_MAXIMUM_BYTES_LENGTH
    /\ find_place(chunks_metadata, used_sectors, capacity, file, result'.chunk_x,
                  result'.chunk_z, StepLength, overflow_checks).how = "extend"

\* C20: growth byte count. Whenever find_place extends the file by n sectors,
\* n = sectors_required - sectors_free, it returns with the file longer by
\* exactly n * 4096 bytes and the bitmap longer by exactly n bits: the byte
\* count 4096 * n, computed in u16, is the number 4096 * n.
C20_GrowthByteCount ==
    [][ExtendStep =>
         LET place == find_place(chunks_metadata, used_sectors, capacity, file, result'.chunk_x,
                                 result'.chunk_z, StepLength, overflow_checks)
             n == SectorsRequired(StepLength, overflow_checks) - FreeTail
         IN /\ place.kind = "Ok"
            /\ place.file.len = file.len + n * REGION_SECTOR_BYTES_LENGTH
            /\ Len(place.used_sectors) = Len(used_sectors) + n]_vars

\* C21: record padding. For every total_length a write_chunk accepts, the
\* number of zero bytes written after the record is in 1 .. 4096, is what the
\* length gives without its truncation to 16 bits, and total_length + padding
\* is sectors_required * 4096: the bytes of the call start at
\* sector_index * 4096 and end at (sector_index + sector_count) * 4096 of the
\* entry it stores, and not past it.
C21_RecordPadding ==
    [][(WriteStep /\ result'.kind = "Ok") =>
         LET padding == Padding(StepLength)
             stored == chunks_metadata'[StepSlot]
             start == stored.sector_index * REGION_SECTOR_BYTES_LENGTH
         IN /\ padding \in 1 .. REGION_SECTOR_BYTES_LENGTH
            /\ padding = REGION_SECTOR_BYTES_LENGTH - (StepLength % REGION_SECTOR_BYTES_LENGTH)
            /\ StepLength + padding = StepSectors * REGION_SECTOR_BYTES_LENGTH
            /\ start + StepLength + padding
                  = (stored.sector_index + stored.sectors) * REGION_SECTOR_BYTES_LENGTH]_vars

\* C22: bitmap rebuild on open. When a region is opened, whatever the header
\* holds, the bitmap has one bit for each whole sector of the file, and bit i
\* is set exactly when i is 0 or 1 or lies in the sector range of an entry
\* that is not empty; the part of a range that lies past the end of the
\* file sets nothing and is no error.
C22_BitmapRebuild ==
    [][OpenStep =>
         \E slots \in {NonEmptySlots(chunks_metadata')} :
            /\ result'.kind = "Ok"
            /\ Len(used_sectors') = file'.len \div REGION_SECTOR_BYTES_LENGTH
            /\ \A i \in 0 .. Len(used_sectors') - 1 :
                  used_sectors'[i + 1] <=>
                     \/ i \in {0, 1}
                     \/ \E s \in slots :
                           /\ chunks_metadata'[s].sector_index <= i
                           /\ i < chunks_metadata'[s].sector_index + chunks_metadata'[s].sectors]_vars

\* C22 happens: a region has just been opened on a file whose header has
\* several entries, one of them with sectors past the end of the file, and
\* a sector that no entry holds.
C22_Witness ==
    /\ result.op = "new"
    /\ Cardinality(NonEmptySlots(chunks_metadata)) >= 2
    /\ \E s \in NonEmptySlots(chunks_metadata) :
          chunks_metadata[s].sector_index + chunks_metadata[s].sectors > Len(used_sectors)
    /\ \E i \in 1 .. Len(used_sectors) : ~used_sectors[i]


\* C23: the bitmap kept by the writes is the bitmap of the header. In every
\* state that successful writes on one region reach from an empty region,
\* the bitmap in memory is the one that used_sectors would build from the
\* header and the length of the file, the sectors of a free run at the end
\* of the file that a growth has reused included.
C23_BitmapAgrees ==
    Alive =>
       used_sectors =
          used_sectors_of(file.len \div REGION_SECTOR_BYTES_LENGTH, chunks_metadata)

\* The part of file f in the sectors of a header entry: its words and its
\* runs of buffer bytes in those sectors.
SectorBytes(f, metadata) ==
    LET from == metadata.sector_index * REGION_SECTOR_BYTES_LENGTH
        to == (metadata.sector_index + metadata.sectors) * REGION_SECTOR_BYTES_LENGTH
    IN [words |-> [o \in {q \in DOMAIN f.words : from <= q /\ q < to} |-> f.words[o]],
        blobs |-> CutBlobs(CutBlobs(f.blobs, 0, from), to, Max(to, f.len))]

\* The bytes of file g in the sectors of a header entry are those of file f
\* (as far as f has them): the same words and runs, or else the same bytes
\* one by one.
SameSectorBytes(f, g, metadata) ==
    \/ SectorBytes(f, metadata) = SectorBytes(g, metadata)
    \/ \A p \in metadata.sector_index * REGION_SECTOR_BYTES_LENGTH
                .. Min((metadata.sector_index + metadata.sectors) * REGION_SECTOR_BYTES_LENGTH,
                       f.len) - 1 :
          ByteAt(g, p) = ByteAt(f, p)

\* C24: a write leaves the other slots alone. A successful write_chunk to a
\* slot changes no byte in the sectors of any other slot that is not empty,
\* and read_chunk on such a slot returns after the write what it returned
\* before it: the value most recently written there.
C24_OtherSlotsKept ==
    [][(WriteStep /\ result'.kind = "Ok") =>
         \A c \in Coords :
            LET t == metadata_index(c[1], c[2]) IN
            (t # StepSlot /\ ~is_empty(chunks_metadata[t])) =>
               /\ SameSectorBytes(file, file', chunks_metadata[t])
               /\ read_chunk(chunks_metadata', file', c[1], c[2], overflow_checks)
                     = read_chunk(chunks_metadata, file, c[1], c[2], overflow_checks)]_vars

\* The number of bytes, counted from the start of the slot's first sector,
\* that read_chunk asks the file for when the length word is accepted: the
\* length word, the byte of the compression scheme and length - 1 bytes of
\* payload.
BytesRead(length) == 4 + 1 + (length - 1)

\* The outcomes of read_chunk that are a value or a ChunkLoadError.
Returned ==
    {"Ok", "ChunkNotFound", "LengthExceedsMaximum", "ReadError",
     "UnsupportedCompressionScheme", "TagDecodeError"}

\* C25: read is total over the length word. For a slot that is not empty and
\* any length word L, 0 included, read_chunk returns a value or a
\* ChunkLoadError; a length word that is accepted is at least 1, so that
\* L - 1 does not go below zero, and the 4 + L bytes read end within the
\* sectors of the slot.
C25_ReadTotal ==
    \A c \in Coords :
        LET metadata == chunks_metadata[metadata_index(c[1], c[2])]
            at == metadata.sector_index * REGION_SECTOR_BYTES_LENGTH
            length == ReadU32(file, at)
        IN (~is_empty(metadata) /\ at + 4 <= file.len) =>
              /\ \A outcome \in ReadNow(c[1], c[2]) : outcome.kind \in Returned
              /\ (length <= MaximumLength(metadata) /\ at + 5 <= file.len) =>
                    /\ length >= 1
                    /\ BytesRead(length) <= metadata.sectors * REGION_SECTOR_BYTES_LENGTH

====
